---- MODULE Spec2Model ----
(***************************************************************************)
(* State-machine model of the portfolio page script (src/script.js) and    *)
(* of the reveal / particle classes of src/unnamed/part_000.               *)
(*                                                                         *)
(* One action per event handler or timer callback.  A handler runs to      *)
(* completion (JavaScript is single-threaded); an async handler is split   *)
(* at its await: the part before the await is one action, the timer        *)
(* callback together with the continuation it resumes is another.          *)
(***************************************************************************)
EXTENDS Integers, Sequences, FiniteSets, TLC

(***************************************************************************)
(* Bounds of the exploration.                                              *)
(***************************************************************************)
\* notifications attached to the document body, counting those that the
\* pending simulated submissions will add
MaxNotifications == 2
\* analytics events logged during one visit
MaxLog == 3
\* success-message hide timers pending, counting those that the pending
\* contact submissions may start
MaxHideTimers == 2
\* animation frames of the particle background
MaxFrames == 3
\* notifications and hide timers of the page that runs both copies of the
\* script, counting those that its pending submissions will add
MaxMerged == 4

VARIABLES
    used,            \* widgets the visitor interacts with in this visit
    storage,         \* window.localStorage: function key -> string
    prefersDark,     \* matchMedia('(prefers-color-scheme: dark)').matches
    State,           \* the shared STATE object of the script
    appReady,        \* PortfolioApp.init has run
    loaded,          \* the 'load' event of the window has fired
    darkMode,        \* body.classList.contains('dark-mode')
    themeColor,      \* content of meta[name=theme-color]
    navMenuActive,   \* navMenu.classList.contains('active')
    ariaExpanded,    \* menuToggle aria-expanded attribute
    bodyOverflow,    \* document.body.style.overflow
    page,            \* documentElement: [scrollHeight, clientHeight]
    scrollY,         \* window.scrollY = pageYOffset = documentElement.scrollTop
    navThrottle,     \* inThrottle of the throttled navigation scroll listener
    navbarClasses,   \* classes 'scrolled' / 'hidden' of .navbar
    progressWidth,   \* progressBar.style.width
    ariaValueNow,    \* progressBar aria-valuenow
    currentSection,  \* NavigationManager.currentSection
    activeLinks,     \* nav links that carry class 'active' (by href target)
    notifications,   \* .notification elements attached to body, oldest first
    events,          \* AnalyticsManager.events (names of the logged events)
    activeFilter,    \* ProjectsManager.activeFilter
    filterActive,    \* filter buttons with class 'active'
    ariaSelected,    \* aria-selected attribute of every filter button
    cardDisplay,     \* style.display of every project card
    fields,          \* contact form: value and class 'error' of each field
    submitDisabled,  \* submitBtn.disabled
    successDisplay,  \* successMessage.style.display
    contactTimers,   \* pending 1500 ms timers of ContactFormManager.submitForm
    hideTimers,      \* pending 5000 ms timers of showSuccess
    nlEmail,         \* value of the newsletter email input
    nlDisabled,      \* disabled flag of the newsletter button
    nlTimers,        \* pending 1000 ms timers of NewsletterManager.handleSubmit
    revealReady,     \* the reveal classes have been constructed
    dataReveal,      \* dataset.reveal of every reveal element ("" when unset)
    classes,         \* classList of every reveal element
    observed,        \* elements the revealObserver still observes
    revealThrottle,  \* inThrottle of ScrollRevealEnhanced's scroll listener
    canvas,          \* particles canvas: [width, height]
    mouse,           \* ParticlesBackground.mouse: [x, y]
    particle,        \* one element of ParticlesBackground.particles
    distance,        \* const distance of the last frame (-1 before the first)
    frames,          \* animation frames run so far
    mergedSubmitting, \* part_000: STATE.formSubmitting of each copy of the script
    mergedQueue      \* part_000: copies whose 1500 ms timer is pending, oldest first

themeVars == <<storage, prefersDark, darkMode, themeColor>>
menuVars == <<navMenuActive, ariaExpanded, bodyOverflow>>
scrollVars == <<page, scrollY, navThrottle, navbarClasses, progressWidth,
                ariaValueNow, currentSection, activeLinks>>
filterVars == <<activeFilter, filterActive, ariaSelected, cardDisplay>>
contactVars == <<fields, submitDisabled, successDisplay, contactTimers, hideTimers>>
newsletterVars == <<nlEmail, nlDisabled, nlTimers>>
revealVars == <<revealReady, dataReveal, classes, observed, revealThrottle>>
particleVars == <<canvas, mouse, particle, distance, frames>>
\* the variables of src/unnamed/part_000: the two copies of the page script
\* that it holds, the reveal classes and the particles
mergedVars == <<mergedSubmitting, mergedQueue>>
animVars == <<revealVars, particleVars, mergedVars>>
\* the variables of the page script
pageVars == <<used, State, appReady, loaded, themeVars, menuVars, page, navThrottle,
              navbarClasses, progressWidth, ariaValueNow, currentSection,
              activeLinks, notifications, events, filterVars, contactVars,
              newsletterVars>>
vars == <<pageVars, scrollY, animVars>>

Widgets == {"theme", "menu", "scroll", "filters", "contact", "newsletter", "analytics"}

\* the visits explored: the visitor interacts with at most two widgets
Visits == {u \in SUBSET Widgets : \E a, b \in Widgets : u \subseteq {a, b}}

\* contents of local-storage key 'theme' found at page load
\* (the empty function of Init stands for an absent key)
StoredThemes == {"", "light", "dark", "blue"}

(***************************************************************************)
(* localStorage                                                            *)
(***************************************************************************)
\* localStorage.getItem(key) || fallback : null and '' are both falsy
getItemOr(key, fallback) ==
    IF key \in DOMAIN storage /\ storage[key] # "" THEN storage[key] ELSE fallback

\* !localStorage.getItem(key)
noItem(key) == ~(key \in DOMAIN storage /\ storage[key] # "")

\* variant: every write also records the value under key 'other'
setItemAlso(key, value) ==
    [k \in (DOMAIN storage) \cup {key, "other"} |->
        IF k = key \/ k = "other" THEN value ELSE storage[k]]

\* localStorage.setItem(key, value)
setItem(key, value) ==
    [k \in (DOMAIN storage) \cup {key} |-> IF k = key THEN value ELSE storage[k]]

(***************************************************************************)
(* ThemeManager                                                            *)
(***************************************************************************)
\* variant: the theme is applied but not saved
setThemeUnsaved(theme) ==
    /\ State' = [State EXCEPT !.theme = theme]
    /\ darkMode' = (theme = "dark")
    /\ UNCHANGED storage
    /\ themeColor' = IF theme = "dark" THEN "#111827" ELSE "#ffffff"

setTheme(theme) ==
    /\ State' = [State EXCEPT !.theme = theme]
    /\ darkMode' = (theme = "dark")
    /\ storage' = setItem("theme", theme)
    /\ themeColor' = IF theme = "dark" THEN "#111827" ELSE "#ffffff"

toggleTheme ==
    LET newTheme == IF State.theme = "light" THEN "dark" ELSE "light"
    IN  setTheme(newTheme)

(***************************************************************************)
(* NavigationManager: menu                                                 *)
(***************************************************************************)
\* variant: aria-expanded is set from the flag as it was before the call
toggleMenuStale ==
    /\ State' = [State EXCEPT !.menuOpen = ~State.menuOpen]
    /\ navMenuActive' = ~State.menuOpen
    /\ ariaExpanded' = IF State.menuOpen THEN "true" ELSE "false"
    /\ bodyOverflow' = IF ~State.menuOpen THEN "hidden" ELSE ""

toggleMenu ==
    /\ State' = [State EXCEPT !.menuOpen = ~State.menuOpen]
    /\ navMenuActive' = ~State.menuOpen
    /\ ariaExpanded' = IF ~State.menuOpen THEN "true" ELSE "false"
    /\ bodyOverflow' = IF ~State.menuOpen THEN "hidden" ELSE ""

\* variant: closing the menu resets the whole interaction state
closeMenuAll ==
    /\ State' = [State EXCEPT !.menuOpen = FALSE, !.formSubmitting = FALSE]
    /\ navMenuActive' = FALSE
    /\ ariaExpanded' = "false"
    /\ bodyOverflow' = ""

closeMenu ==
    /\ State' = [State EXCEPT !.menuOpen = FALSE]
    /\ navMenuActive' = FALSE
    /\ ariaExpanded' = "false"
    /\ bodyOverflow' = ""

(***************************************************************************)
(* Page geometry used by the scroll handlers (inputs of the model).        *)
(***************************************************************************)
\* window.innerHeight = documentElement.clientHeight
ViewportHeight == 400
\* scrollHeight of a page that fits the viewport, and of a longer page
PageHeights == {400, 700}
\* scroll offsets the visitor stops at
ScrollStops == {0, 150, 250}

\* section[id] elements in document order: offsetTop and clientHeight
Sections ==
    << [id |-> "home",    offsetTop |-> 0,   clientHeight |-> 200],
       [id |-> "about",   offsetTop |-> 200, clientHeight |-> 150],
       [id |-> "contact", offsetTop |-> 400, clientHeight |-> 300] >>

\* .nav-link elements, each named by the id its href '#id' points at
NavLinks == {"home", "about", "contact", "blog"}

\* the value null of currentSection
NoSection == "null"

\* JavaScript numbers that the progress bar receives
Number(n, d) == [kind |-> "number", num |-> n, den |-> d]
NaN == [kind |-> "NaN", num |-> 0, den |-> 1]
\* Math.round of the non-negative rational n/d: floor(n/d + 1/2)
MathRound(x) ==
    IF x.kind = "NaN" THEN NaN
    ELSE Number((2 * x.num + x.den) \div (2 * x.den), 1)

\* offsets the window can be scrolled to: 0 .. scrollHeight - clientHeight
Reachable(y) == 0 <= y /\ y <= page.scrollHeight - page.clientHeight

(***************************************************************************)
(* NavigationManager: scroll-driven updates                                *)
(***************************************************************************)
\* variant: a section counts as current from its top onwards, without the
\* test against its bottom edge
RECURSIVE setActiveNavLinkFromTop(_, _, _, _)
setActiveNavLinkFromTop(i, scrollPos, cur, links) ==
    IF i > Len(Sections) THEN <<cur, links>>
    ELSE LET section == Sections[i]
             inside == scrollPos >= section.offsetTop
         IN  IF inside /\ cur # section.id
               THEN setActiveNavLinkFromTop(i + 1, scrollPos, section.id,
                                            {l \in NavLinks : l = section.id})
               ELSE setActiveNavLinkFromTop(i + 1, scrollPos, cur, links)

\* one pass of sections.forEach in setActiveNavLink: <<currentSection, links>>
RECURSIVE setActiveNavLinkFrom(_, _, _, _)
setActiveNavLinkFrom(i, scrollPos, cur, links) ==
    IF i > Len(Sections) THEN <<cur, links>>
    ELSE LET section == Sections[i]
             inside == /\ scrollPos >= section.offsetTop
                       /\ scrollPos < section.offsetTop + section.clientHeight
         IN  IF inside /\ cur # section.id
               THEN setActiveNavLinkFrom(i + 1, scrollPos, section.id,
                                         {l \in NavLinks : l = section.id})
               ELSE setActiveNavLinkFrom(i + 1, scrollPos, cur, links)

setActiveNavLink ==
    LET r == setActiveNavLinkFrom(1, scrollY' + 100, currentSection, activeLinks)
    IN  /\ currentSection' = r[1]
        /\ activeLinks' = r[2]

updateProgressBar ==
    LET winScroll == scrollY'
        height == page.scrollHeight - page.clientHeight
        scrolled == IF height = 0 THEN NaN ELSE Number(winScroll * 100, height)
    IN  /\ progressWidth' = IF scrolled.kind = "NaN" THEN progressWidth ELSE scrolled
        /\ ariaValueNow' = MathRound(scrolled)

\* variant: the navbar hides on every downward move past 100
updateNavbarAnyRise ==
    LET currentScroll == scrollY'
    IN  /\ navbarClasses' =
              IF currentScroll > 100
                THEN IF currentScroll > State.scrollPosition
                       THEN navbarClasses \cup {"scrolled", "hidden"}
                       ELSE (navbarClasses \cup {"scrolled"}) \ {"hidden"}
                ELSE navbarClasses \ {"scrolled", "hidden"}
        /\ State' = [State EXCEPT !.scrollPosition = currentScroll]

updateNavbar ==
    LET currentScroll == scrollY'
    IN  /\ navbarClasses' =
              IF currentScroll > 100
                THEN IF currentScroll > State.scrollPosition /\ currentScroll > 200
                       THEN navbarClasses \cup {"scrolled", "hidden"}
                       ELSE (navbarClasses \cup {"scrolled"}) \ {"hidden"}
                ELSE navbarClasses \ {"scrolled", "hidden"}
        /\ State' = [State EXCEPT !.scrollPosition = currentScroll]

(***************************************************************************)
(* Notifications (showNotification / showMessage): a div appended to body  *)
(* and detached 3000 + 300 ms later.  Its class 'show', added in the next  *)
(* animation frame and removed after 3000 ms, only drives a CSS transition *)
(* and is not part of the state.                                           *)
(***************************************************************************)
Notification(text, type) == [text |-> text, type |-> type]

showNotification(text, type) == Append(notifications, Notification(text, type))

(***************************************************************************)
(* AnalyticsManager                                                        *)
(***************************************************************************)
\* "Keep only last 100 events in memory"
KeptEvents == 100

logEvent(name) ==
    LET pushed == Append(events, name)
    IN  IF Len(pushed) > KeptEvents
          THEN SubSeq(pushed, Len(pushed) - KeptEvents + 1, Len(pushed))
          ELSE pushed

(***************************************************************************)
(* ProjectsManager                                                         *)
(***************************************************************************)
\* data-filter of the .filter-btn elements
FilterButtons == {"all", "web", "mobile"}
\* data-category of the .project-card elements
ProjectCards == [c1 |-> "web", c2 |-> "mobile", c3 |-> "web"]

\* the attribute value setAttribute stores for a boolean
String(b) == IF b THEN "true" ELSE "false"

\* variant: the clicked button is marked and the others are left as they are
setActiveFilterAdd(filter) ==
    /\ activeFilter' = filter
    /\ filterActive' = filterActive \cup {filter}
    /\ ariaSelected' = [ariaSelected EXCEPT ![filter] = "true"]

setActiveFilter(filter) ==
    /\ activeFilter' = filter
    /\ filterActive' = {b \in FilterButtons : b = filter}
    /\ ariaSelected' = [b \in FilterButtons |-> String(b = filter)]

filterProjects(filter) ==
    cardDisplay' = [c \in DOMAIN ProjectCards |->
                      IF filter = "all" \/ ProjectCards[c] = filter
                        THEN "block" ELSE "none"]

(***************************************************************************)
(* ContactFormManager                                                      *)
(***************************************************************************)
\* the [required] fields of #contact-form, in document order
RequiredFields == <<"name", "email">>
\* values the visitor types into a field
FieldValues == [name |-> {"", "Ada"}, email |-> {"", "ada", "ada@example.org"}]

\* field.validity.valid of a required field (HTML constraint validation:
\* valueMissing for an empty value, typeMismatch for type=email)
validityValid(f, value) ==
    IF f = "email" THEN value = "ada@example.org" ELSE value # ""

\* validateField: hideError / showError set or clear class 'error';
\* the result is <<return value, field after the call>>
validateField(f, field) ==
    IF validityValid(f, field.value)
      THEN <<TRUE, [field EXCEPT !.error = FALSE]>>
      ELSE <<FALSE, [field EXCEPT !.error = TRUE]>>

\* variant: the loop stops at the first invalid field
RECURSIVE validateFormFromFirst(_, _, _)
validateFormFromFirst(i, isValid, fs) ==
    IF i > Len(RequiredFields) \/ ~isValid THEN <<isValid, fs>>
    ELSE LET f == RequiredFields[i]
             r == validateField(f, fs[f])
         IN  validateFormFromFirst(i + 1, isValid /\ r[1], [fs EXCEPT ![f] = r[2]])

\* validateForm: forEach over the required fields; <<isValid, fields after>>
RECURSIVE validateFormFrom(_, _, _)
validateFormFrom(i, isValid, fs) ==
    IF i > Len(RequiredFields) THEN <<isValid, fs>>
    ELSE LET f == RequiredFields[i]
             r == validateField(f, fs[f])
         IN  validateFormFrom(i + 1, isValid /\ r[1], [fs EXCEPT ![f] = r[2]])

\* variant: the form is accepted without looking at the fields
validateFormAccepts == <<TRUE, fields>>

validateForm == validateFormFrom(1, TRUE, fields)

\* variant: the reset leaves the values in place
formResetKeeps(fs) == fs

\* form.reset(): every field back to its default value
formReset(fs) == [f \in DOMAIN fs |-> [fs[f] EXCEPT !.value = ""]]

\* form.querySelectorAll('.error').forEach(field => field.classList.remove('error'))
removeErrors(fs) == [f \in DOMAIN fs |-> [fs[f] EXCEPT !.error = FALSE]]

\* variant: the button is enabled whatever the flag
setSubmittingStateOff(submitting) == submitDisabled' = FALSE

\* variant: the button is disabled whatever the flag
setSubmittingStateOn(submitting) == submitDisabled' = TRUE

\* setSubmittingState(submitting): the button text and the loader follow
\* the same flag
setSubmittingState(submitting) == submitDisabled' = submitting

(***************************************************************************)
(* NewsletterManager                                                       *)
(***************************************************************************)
\* characters of the newsletter inputs
Blank == " "
\* values the visitor types into the newsletter email input
NewsletterEmails ==
    { <<>>,
      <<"a", "d", "a">>,
      <<"a", "@", "b">>,
      <<"a", "@", "b", ".", "c">>,
      <<"a", Blank, "@", "b", ".", "c">> }

\* [^\s@]+ : a non-empty run without white space and without '@'
Run(s, from, to) ==
    /\ from <= to
    /\ \A i \in from..to : s[i] # Blank /\ s[i] # "@"

\* /^[^\s@]+@[^\s@]+\.[^\s@]+$/.test(email)
validateEmail(email) ==
    \E at \in 1..Len(email) : \E dot \in 1..Len(email) :
        /\ email[at] = "@"
        /\ email[dot] = "."
        /\ at < dot
        /\ Run(email, 1, at - 1)
        /\ Run(email, at + 1, dot - 1)
        /\ Run(email, dot + 1, Len(email))

\* variant: the awaited promise may be rejected
NewsletterRejects == {"resolved", "rejected"}

\* how the promise awaited by handleSubmit settles when its timer fires:
\* new Promise(resolve => setTimeout(resolve, 1000)) can only be resolved
NewsletterSettles == {"resolved"}

\* submitForm: resolve when Math.random() > 0.1, reject otherwise
ContactSettles == {"resolved", "rejected"}

(***************************************************************************)
(* Initial state: the DOMContentLoaded callback has built the STATE object.*)
(***************************************************************************)
PageInit ==
    /\ used \in Visits
    \* the stored theme and the system preference vary in the visits that use
    \* the theme, the page is longer than the viewport in those that scroll
    /\ \E other \in {<<>>, [other |-> "x"]} :
         \/ /\ "theme" \in used
            /\ storage = other
         \/ /\ "theme" \in used
            /\ \E t \in StoredThemes :
                 storage = [k \in (DOMAIN other) \cup {"theme"} |->
                               IF k = "theme" THEN t ELSE other[k]]
         \/ /\ "theme" \notin used
            /\ other # <<>>
            /\ storage = other
    /\ prefersDark \in (IF "theme" \in used THEN BOOLEAN ELSE {FALSE})
    /\ State = [theme |-> getItemOr("theme", IF prefersDark THEN "dark" ELSE "light"),
                scrollPosition |-> 0,
                menuOpen |-> FALSE,
                formSubmitting |-> FALSE]
    /\ appReady = FALSE
    /\ loaded = FALSE
    /\ darkMode = FALSE
    /\ themeColor = "#ffffff"
    /\ navMenuActive = FALSE
    /\ ariaExpanded = "false"
    /\ bodyOverflow = ""
    /\ \E h \in PageHeights :
         /\ ("scroll" \in used) = (h > ViewportHeight)
         /\ page = [scrollHeight |-> h, clientHeight |-> ViewportHeight]
    /\ scrollY = 0
    /\ navThrottle = FALSE
    /\ navbarClasses = {}
    /\ progressWidth = [kind |-> "unset", num |-> 0, den |-> 1]
    /\ ariaValueNow = [kind |-> "unset", num |-> 0, den |-> 1]
    /\ currentSection = NoSection
    /\ activeLinks = {}
    /\ notifications = <<>>
    /\ events = <<>>
    /\ activeFilter = "all"
    /\ filterActive = {"all"}
    /\ ariaSelected = [b \in FilterButtons |-> String(b = "all")]
    /\ cardDisplay = [c \in DOMAIN ProjectCards |-> ""]
    /\ fields = [f \in {"name", "email"} |-> [value |-> "", error |-> FALSE]]
    /\ submitDisabled = FALSE
    /\ successDisplay = "none"
    /\ contactTimers = 0
    /\ hideTimers = 0
    /\ nlEmail = <<>>
    /\ nlDisabled = FALSE
    /\ nlTimers = 0

(***************************************************************************)
(* Reveal elements (src/unnamed/part_000): ScrollRevealEnhanced and the    *)
(* revealObserver of ScrollRevealManager.initRevealElements.               *)
(***************************************************************************)
\* elements matched by the reveal selectors: offsetTop, height and the
\* data-reveal attribute of the markup ("" when it has none)
RevealElements ==
    [a |-> [top |-> 410, height |-> 20,  reveal |-> "fade-up"],
     b |-> [top |-> 560, height |-> 100, reveal |-> ""],
     c |-> [top |-> 100, height |-> 50,  reveal |-> ""]]

\* const reveals = ['fade-up', 'fade-left', 'zoom-in']
Reveals == {"fade-up", "fade-left", "zoom-in"}

\* `reveal-${el.dataset.reveal}`
RevealClass(kind) ==
    CASE kind = "fade-up"   -> "reveal-fade-up"
      [] kind = "fade-left" -> "reveal-fade-left"
      [] kind = "zoom-in"   -> "reveal-zoom-in"
      [] OTHER              -> "reveal-"

\* el.getBoundingClientRect() when the window is scrolled to offset y
getBoundingClientRect(el, y) ==
    [top    |-> RevealElements[el].top - y,
     bottom |-> RevealElements[el].top + RevealElements[el].height - y]

\* dataset.reveal after the forEach of init / initRevealElements: an element
\* without the attribute receives reveals[Math.floor(Math.random() * 3)]
RevealChoices ==
    {d \in [DOMAIN RevealElements -> Reveals] :
        \A el \in DOMAIN RevealElements :
            RevealElements[el].reveal # "" => d[el] = RevealElements[el].reveal}

\* variant: every element is revealed, visible or not
checkVisibilityAll(y, data, cls) ==
    [el \in DOMAIN cls |->
        IF "revealed" \notin cls[el]
          THEN cls[el] \cup {"revealed", RevealClass(data[el])}
          ELSE cls[el]]

\* ScrollRevealEnhanced.checkVisibility at scroll offset y: the classList
\* of every element afterwards
checkVisibility(y, data, cls) ==
    [el \in DOMAIN cls |->
        LET rect == getBoundingClientRect(el, y)
            isVisible == /\ rect.top * 10 <= ViewportHeight * 8
                         /\ rect.bottom >= 0
        IN  IF isVisible /\ "revealed" \notin cls[el]
              THEN cls[el] \cup {"revealed", RevealClass(data[el])}
              ELSE cls[el]]

\* rootMargin: '20px' of the revealObserver
RootMargin == 20

Min(i, j) == IF i < j THEN i ELSE j
Max(i, j) == IF i > j THEN i ELSE j

\* entry.isIntersecting of the revealObserver for element el at offset y.
\* The root is the viewport grown by the root margin; edges that touch
\* intersect.  An engine that follows the W3C text reports every
\* intersection; a strict engine reports it only from the first threshold
\* (0.1 of the element's area, the elements being as wide as the viewport).
isIntersecting(el, y, strict) ==
    LET rect == getBoundingClientRect(el, y)
        rootTop == 0 - RootMargin
        rootBottom == ViewportHeight + RootMargin
        intersection == Min(rect.bottom, rootBottom) - Max(rect.top, rootTop)
    IN  /\ rect.top <= rootBottom
        /\ rect.bottom >= rootTop
        /\ strict => intersection * 10 >= RevealElements[el].height

\* the callback of the revealObserver applied to the intersecting entries
revealEntries(entries, cls) ==
    [el \in DOMAIN cls |->
        IF el \in entries
          THEN cls[el] \cup {"revealed", RevealClass(dataReveal[el])}
          ELSE cls[el]]

\* the document before the reveal classes are constructed
NoReveal ==
    /\ revealReady = FALSE
    /\ dataReveal = [el \in DOMAIN RevealElements |-> RevealElements[el].reveal]
    /\ classes = [el \in DOMAIN RevealElements |-> {}]
    /\ observed = {}
    /\ revealThrottle = FALSE

(***************************************************************************)
(* ParticlesBackground (src/unnamed/part_000).  Coordinates are fixed-     *)
(* point numbers in hundredths of a pixel; cosine, sine and force are      *)
(* fixed-point numbers in thousandths.                                     *)
(***************************************************************************)
\* n pixels
Px(n) == n * 100

\* division that truncates towards zero
TruncDiv(i, j) == IF i >= 0 THEN i \div j ELSE 0 - ((0 - i) \div j)

\* floor of the square root of n, searched in lo..hi
RECURSIVE SqrtBetween(_, _, _)
SqrtBetween(n, lo, hi) ==
    IF lo >= hi THEN lo
    ELSE LET mid == (lo + hi + 1) \div 2
         IN  IF mid * mid <= n THEN SqrtBetween(n, mid, hi)
                               ELSE SqrtBetween(n, lo, mid - 1)

\* Math.sqrt
MathSqrt(n) == SqrtBetween(n, 0, 46340)

\* window.innerWidth x window.innerHeight of the windows explored
WindowSizes == {[width |-> Px(200), height |-> Px(150)],
                [width |-> Px(120), height |-> Px(150)]}
\* values of Math.random() * canvas.width and Math.random() * canvas.height
ParticleXs == {0, Px(30), Px(100) - 10, Px(100) + 10, Px(160)}
ParticleYs == {0, Px(40)}
\* values of (Math.random() - 0.5) * speed, speed being 0.3
Velocities == {0 - 15, 0, 14}
\* clientX, clientY of the mousemove events
MousePositions == {[x |-> 0, y |-> 0], [x |-> Px(100), y |-> 0],
                   [x |-> Px(100), y |-> Px(40)], [x |-> Px(30), y |-> Px(41)]}

\* variant: the particle is pulled towards the mouse
animateAttract(p, m, c) ==
    LET x1 == p.x + p.vx
        y1 == p.y + p.vy
        vx1 == IF x1 < 0 \/ x1 > c.width THEN 0 - p.vx ELSE p.vx
        vy1 == IF y1 < 0 \/ y1 > c.height THEN 0 - p.vy ELSE p.vy
        dx == m.x - x1
        dy == m.y - y1
        dist == MathSqrt(dx * dx + dy * dy)
        cos == IF dist = 0 THEN 1000 ELSE TruncDiv(dx * 1000, dist)
        sin == IF dist = 0 THEN 0 ELSE TruncDiv(dy * 1000, dist)
        force == ((m.radius - dist) * 1000) \div m.radius
        x2 == IF dist < m.radius
                THEN x1 + TruncDiv(cos * force * 2 * Px(1), 1000 * 1000) ELSE x1
        y2 == IF dist < m.radius
                THEN y1 + TruncDiv(sin * force * 2 * Px(1), 1000 * 1000) ELSE y1
    IN  << [x |-> x2, y |-> y2, vx |-> vx1, vy |-> vy1], dist >>

\* the body of particles.forEach in animate:
\* <<the particle afterwards, const distance>>
animate(p, m, c) ==
    LET x1 == p.x + p.vx
        y1 == p.y + p.vy
        vx1 == IF x1 < 0 \/ x1 > c.width THEN 0 - p.vx ELSE p.vx
        vy1 == IF y1 < 0 \/ y1 > c.height THEN 0 - p.vy ELSE p.vy
        dx == m.x - x1
        dy == m.y - y1
        dist == MathSqrt(dx * dx + dy * dy)
        \* Math.atan2(0, 0) is 0: cosine 1, sine 0
        cos == IF dist = 0 THEN 1000 ELSE TruncDiv(dx * 1000, dist)
        sin == IF dist = 0 THEN 0 ELSE TruncDiv(dy * 1000, dist)
        force == ((m.radius - dist) * 1000) \div m.radius
        x2 == IF dist < m.radius
                THEN x1 - TruncDiv(cos * force * 2 * Px(1), 1000 * 1000) ELSE x1
        y2 == IF dist < m.radius
                THEN y1 - TruncDiv(sin * force * 2 * Px(1), 1000 * 1000) ELSE y1
    IN  << [x |-> x2, y |-> y2, vx |-> vx1, vy |-> vy1], dist >>

\* the page before a ParticlesBackground is constructed
NoParticles ==
    /\ canvas = [width |-> 0, height |-> 0]
    /\ mouse = [x |-> 0, y |-> 0, radius |-> Px(100)]
    /\ particle = [x |-> 0, y |-> 0, vx |-> 0, vy |-> 0]
    /\ distance = 0 - 1
    /\ frames = 0

(***************************************************************************)
(* The two copies of the page script in src/unnamed/part_000: each is a    *)
(* DOMContentLoaded closure with a STATE object and a ContactFormManager   *)
(* of its own, and both managers listen on the same #contact-form.         *)
(***************************************************************************)
\* the copies, in the order of the file
Copies == {1, 2}

\* no copy has a submission pending
NoMerged ==
    /\ mergedSubmitting = [k \in Copies |-> FALSE]
    /\ mergedQueue = <<>>

\* handleSubmit of copy k up to its await, applied to
\* st = [fields, submitting, disabled, queue, notifications]
mergedHandleSubmit(k, st) ==
    IF st.submitting[k] THEN st
    ELSE LET v == validateFormFrom(1, TRUE, st.fields)
         IN  IF ~v[1]
               THEN [st EXCEPT !.fields = v[2],
                               !.notifications =
                                  Append(@, Notification("contact-invalid", "error"))]
               ELSE [st EXCEPT !.fields = v[2],
                               !.submitting[k] = TRUE,
                               !.disabled = TRUE,
                               !.queue = Append(@, k)]

(***************************************************************************)
(* Initial state of the page of src/script.js, which has neither reveal    *)
(* classes nor particles.                                                  *)
(***************************************************************************)
Init ==
    /\ PageInit
    /\ NoReveal
    /\ NoParticles
    /\ NoMerged

(***************************************************************************)
(* PortfolioApp.init: constructs every manager.                            *)
(***************************************************************************)
PortfolioAppInit ==
    /\ ~appReady
    /\ appReady' = TRUE
    \* new ThemeManager()
    /\ setTheme(State.theme)
    \* new NavigationManager(): setActiveNavLink, updateProgressBar
    /\ scrollY' = scrollY
    /\ setActiveNavLink
    /\ updateProgressBar
    \* new ProjectsManager(): filterProjects('all')
    /\ filterProjects("all")
    \* new AnalyticsManager(): trackPageView
    /\ events' = logEvent("page_view")
    /\ UNCHANGED <<used, loaded, prefersDark, menuVars, page, navThrottle,
                   navbarClasses, notifications, activeFilter, filterActive, ariaSelected,
                   contactVars,
                   newsletterVars>>
    /\ UNCHANGED animVars

\* what the handlers of one widget leave alone
otherThanTheme == <<used, appReady, loaded, menuVars, scrollVars, notifications, events,
                    filterVars, contactVars, newsletterVars>>
otherThanMenu == <<used, appReady, loaded, themeVars, scrollVars, notifications, events,
                   filterVars, contactVars, newsletterVars>>

\* click on .theme-switcher
ThemeSwitcherClick ==
    /\ appReady /\ "theme" \in used
    /\ toggleTheme
    /\ UNCHANGED <<prefersDark, otherThanTheme>>
    /\ UNCHANGED animVars

\* keydown Alt+T
KeyAltT ==
    /\ appReady /\ "theme" \in used
    /\ toggleTheme
    /\ UNCHANGED <<prefersDark, otherThanTheme>>
    /\ UNCHANGED animVars

\* 'change' event of the prefers-color-scheme media query
ColorSchemeChange ==
    /\ appReady /\ "theme" \in used
    /\ prefersDark' = ~prefersDark
    /\ IF noItem("theme")
         THEN setTheme(IF prefersDark' THEN "dark" ELSE "light")
         ELSE UNCHANGED <<State, storage, darkMode, themeColor>>
    /\ UNCHANGED otherThanTheme
    /\ UNCHANGED animVars

\* click on .menu-toggle, or Enter / Space on it
MenuToggleClick ==
    /\ appReady /\ "menu" \in used
    /\ toggleMenu
    /\ UNCHANGED otherThanMenu
    /\ UNCHANGED animVars

\* click on a .nav-link
NavLinkClick ==
    /\ appReady /\ "menu" \in used
    /\ closeMenu
    /\ UNCHANGED otherThanMenu
    /\ UNCHANGED animVars

\* keydown Escape (NavigationManager.bindEvents and initKeyboardShortcuts)
KeyEscape ==
    /\ appReady /\ "menu" \in used
    /\ closeMenu
    /\ UNCHANGED otherThanMenu
    /\ UNCHANGED animVars

\* a 'scroll' event of the window: the offset has changed; the throttled
\* navigation listener runs unless it is inside its 100 ms window
WindowScroll ==
    /\ appReady /\ "scroll" \in used
    /\ \E y \in ScrollStops : Reachable(y) /\ y # scrollY /\ scrollY' = y
    /\ IF ~navThrottle
         THEN /\ setActiveNavLink
              /\ updateProgressBar
              /\ updateNavbar
              /\ navThrottle' = TRUE
         ELSE UNCHANGED <<State, navThrottle, navbarClasses, progressWidth,
                          ariaValueNow, currentSection, activeLinks>>
    /\ UNCHANGED <<used, appReady, loaded, themeVars, menuVars, page, notifications, events,
                   filterVars, contactVars, newsletterVars>>
    /\ UNCHANGED animVars

\* the setTimeout of Utils.throttle: inThrottle = false
NavThrottleTimer ==
    /\ navThrottle
    /\ navThrottle' = FALSE
    /\ UNCHANGED <<used, State, appReady, loaded, themeVars, menuVars, page, scrollY,
                   navbarClasses, progressWidth, ariaValueNow, currentSection,
                   activeLinks, notifications, events, filterVars, contactVars,
                   newsletterVars>>
    /\ UNCHANGED animVars

\* click on a .filter-btn
FilterClickOn(filter) ==
    /\ appReady /\ "filters" \in used
    /\ setActiveFilter(filter)
    /\ filterProjects(filter)
    /\ UNCHANGED <<used, State, appReady, loaded, themeVars, menuVars, scrollVars,
                   notifications, events, contactVars, newsletterVars>>
    /\ UNCHANGED animVars

FilterClick == \E filter \in FilterButtons : FilterClickOn(filter)

\* AnalyticsManager.trackInteractions: a click whose target is an A, BUTTON
\* or INPUT element
TrackClick ==
    /\ appReady /\ "analytics" \in used
    /\ Len(events) < MaxLog
    /\ events' = logEvent("click")
    /\ UNCHANGED <<used, State, appReady, loaded, themeVars, menuVars, scrollVars,
                   notifications, filterVars, contactVars, newsletterVars>>
    /\ UNCHANGED animVars

\* AnalyticsManager.trackPerformance: the 'load' event of the window, in a
\* browser that has performance.timing
WindowLoad ==
    /\ appReady /\ ~loaded
    /\ Len(events) < MaxLog
    /\ loaded' = TRUE
    /\ events' = logEvent("performance")
    /\ UNCHANGED <<used, State, appReady, themeVars, menuVars, scrollVars,
                   notifications, filterVars, contactVars, newsletterVars>>
    /\ UNCHANGED animVars

(***************************************************************************)
(* Notifications                                                           *)
(***************************************************************************)
\* slots of the notification area that are taken or reserved
Reserved == Len(notifications) + contactTimers + nlTimers

\* setTimeout(..., 3000) then setTimeout(..., 300):
\* document.body.removeChild(notification); equal delays expire in order
NotificationRemove ==
    /\ Len(notifications) > 0
    /\ notifications' = Tail(notifications)
    /\ UNCHANGED <<used, State, appReady, loaded, themeVars, menuVars, scrollVars, events,
                   filterVars, contactVars, newsletterVars>>
    /\ UNCHANGED animVars

(***************************************************************************)
(* Contact form                                                            *)
(***************************************************************************)
\* 'input' event of a field: the visitor changes its value; validateField
FieldInput ==
    /\ appReady /\ "contact" \in used
    /\ \E f \in DOMAIN fields : \E v \in FieldValues[f] :
         /\ v # fields[f].value
         /\ fields' = [fields EXCEPT
                         ![f] = validateField(f, [fields[f] EXCEPT !.value = v])[2]]
    /\ UNCHANGED <<used, State, appReady, loaded, themeVars, menuVars, scrollVars,
                   notifications, events, filterVars, submitDisabled,
                   successDisplay, contactTimers, hideTimers, newsletterVars>>
    /\ UNCHANGED animVars

\* 'blur' event of a field: validateField
FieldBlur ==
    /\ appReady /\ "contact" \in used
    /\ \E f \in DOMAIN fields :
         fields' = [fields EXCEPT ![f] = validateField(f, fields[f])[2]]
    /\ UNCHANGED <<used, State, appReady, loaded, themeVars, menuVars, scrollVars,
                   notifications, events, filterVars, submitDisabled,
                   successDisplay, contactTimers, hideTimers, newsletterVars>>
    /\ UNCHANGED animVars

\* variant: a submit event is handled even while a submission is pending
handleSubmitAgain ==
    LET v == validateForm
    IN  /\ fields' = v[2]
        /\ IF ~v[1]
             THEN /\ notifications' = showNotification("contact-invalid", "error")
                  /\ UNCHANGED <<State, submitDisabled, contactTimers>>
             ELSE /\ State' = [State EXCEPT !.formSubmitting = TRUE]
                  /\ setSubmittingState(TRUE)
                  /\ contactTimers' = contactTimers + 1
                  /\ UNCHANGED notifications

\* ContactFormManager.handleSubmit up to its await
handleSubmit ==
    IF State.formSubmitting
      THEN UNCHANGED <<State, fields, notifications, submitDisabled, contactTimers>>
      ELSE LET v == validateForm
           IN  /\ fields' = v[2]
               /\ IF ~v[1]
                    THEN /\ notifications' = showNotification("contact-invalid", "error")
                         /\ UNCHANGED <<State, submitDisabled, contactTimers>>
                    ELSE /\ State' = [State EXCEPT !.formSubmitting = TRUE]
                         /\ setSubmittingState(TRUE)
                         /\ contactTimers' = contactTimers + 1
                         /\ UNCHANGED notifications

\* 'submit' event of #contact-form: handleSubmit on the form, then the
\* document listener of AnalyticsManager.trackInteractions
ContactSubmit ==
    /\ appReady /\ "contact" \in used
    /\ Len(events) < MaxLog
    /\ Reserved < MaxNotifications
    /\ hideTimers + contactTimers < MaxHideTimers
    /\ handleSubmit
    /\ events' = logEvent("form_submit:contact-form")
    /\ UNCHANGED <<used, appReady, loaded, themeVars, menuVars, scrollVars, filterVars,
                   successDisplay, hideTimers, newsletterVars>>
    /\ UNCHANGED animVars

\* the 1500 ms timer of submitForm settles the promise; handleSubmit resumes
ContactTimer ==
    /\ contactTimers > 0
    /\ contactTimers' = contactTimers - 1
    /\ \E outcome \in ContactSettles :
         IF outcome = "resolved"
           THEN \* showSuccess, form.reset, error classes removed
                /\ successDisplay' = "flex"
                /\ hideTimers' = hideTimers + 1
                /\ fields' = removeErrors(formReset(fields))
                /\ UNCHANGED notifications
           ELSE \* catch
                /\ notifications' = showNotification("contact-failure", "error")
                /\ UNCHANGED <<successDisplay, hideTimers, fields>>
    \* finally
    /\ State' = [State EXCEPT !.formSubmitting = FALSE]
    /\ setSubmittingState(FALSE)
    /\ UNCHANGED <<used, appReady, loaded, themeVars, menuVars, scrollVars, events,
                   filterVars, newsletterVars>>
    /\ UNCHANGED animVars

\* the 5000 ms timer of showSuccess
SuccessHideTimer ==
    /\ hideTimers > 0
    /\ hideTimers' = hideTimers - 1
    /\ successDisplay' = "none"
    /\ UNCHANGED <<used, State, appReady, loaded, themeVars, menuVars, scrollVars,
                   notifications, events, filterVars, fields, submitDisabled,
                   contactTimers, newsletterVars>>
    /\ UNCHANGED animVars

(***************************************************************************)
(* Newsletter form                                                         *)
(***************************************************************************)
\* the visitor edits the newsletter email input
NewsletterInput ==
    /\ appReady /\ "newsletter" \in used
    /\ \E e \in NewsletterEmails : e # nlEmail /\ nlEmail' = e
    /\ UNCHANGED <<used, State, appReady, loaded, themeVars, menuVars, scrollVars,
                   notifications, events, filterVars, contactVars, nlDisabled,
                   nlTimers>>
    /\ UNCHANGED animVars

\* NewsletterManager.handleSubmit up to its await
newsletterHandleSubmit ==
    IF ~validateEmail(nlEmail)
      THEN /\ notifications' = showNotification("newsletter-invalid", "error")
           /\ UNCHANGED <<nlDisabled, nlTimers>>
      ELSE /\ nlDisabled' = TRUE
           /\ nlTimers' = nlTimers + 1
           /\ UNCHANGED notifications

\* 'submit' event of .newsletter-form: handleSubmit, then the document
\* listener of AnalyticsManager.trackInteractions
NewsletterSubmit ==
    /\ appReady /\ "newsletter" \in used
    /\ Len(events) < MaxLog
    /\ Reserved < MaxNotifications
    /\ newsletterHandleSubmit
    /\ events' = logEvent("form_submit:newsletter")
    /\ UNCHANGED <<used, State, appReady, loaded, themeVars, menuVars, scrollVars,
                   filterVars, contactVars, nlEmail>>
    /\ UNCHANGED animVars

\* the 1000 ms timer settles the promise; handleSubmit resumes
NewsletterTimer ==
    /\ nlTimers > 0
    /\ nlTimers' = nlTimers - 1
    /\ \E outcome \in NewsletterSettles :
         IF outcome = "resolved"
           THEN /\ notifications' = showNotification("newsletter-success", "success")
                /\ nlEmail' = <<>>
           ELSE \* catch
                /\ notifications' = showNotification("newsletter-failure", "error")
                /\ UNCHANGED nlEmail
    \* finally
    /\ nlDisabled' = FALSE
    /\ UNCHANGED <<used, State, appReady, loaded, themeVars, menuVars, scrollVars, events,
                   filterVars, contactVars>>
    /\ UNCHANGED animVars

Next ==
    \/ PortfolioAppInit
    \/ ThemeSwitcherClick
    \/ KeyAltT
    \/ ColorSchemeChange
    \/ MenuToggleClick
    \/ NavLinkClick
    \/ KeyEscape
    \/ WindowScroll
    \/ NavThrottleTimer
    \/ FilterClick
    \/ TrackClick
    \/ WindowLoad
    \/ NotificationRemove
    \/ FieldInput
    \/ FieldBlur
    \/ ContactSubmit
    \/ ContactTimer
    \/ SuccessHideTimer
    \/ NewsletterInput
    \/ NewsletterSubmit
    \/ NewsletterTimer

Spec == Init /\ [][Next]_vars

(***************************************************************************)
(* The reveal classes of src/unnamed/part_000 on a page longer than the    *)
(* viewport.  The navigation listener of the same scroll events is the     *)
(* action WindowScroll above.                                              *)
(***************************************************************************)
RevealInit ==
    /\ PageInit
    /\ used = {"scroll"}
    /\ NoReveal
    /\ NoParticles
    /\ NoMerged

\* new ScrollRevealEnhanced() and ScrollRevealManager.initRevealElements():
\* data-reveal is completed, checkVisibility runs once, every element is
\* observed
RevealConstruct ==
    /\ ~revealReady
    /\ revealReady' = TRUE
    /\ dataReveal' \in RevealChoices
    /\ classes' = checkVisibility(scrollY, dataReveal', classes)
    /\ observed' = DOMAIN RevealElements
    /\ UNCHANGED <<pageVars, scrollY, revealThrottle, particleVars, mergedVars>>

\* a 'scroll' event of the window: the throttled checkVisibility listener
RevealScroll ==
    /\ revealReady
    /\ \E y \in ScrollStops : Reachable(y) /\ y # scrollY /\ scrollY' = y
    /\ IF ~revealThrottle
         THEN /\ classes' = checkVisibility(scrollY', dataReveal, classes)
              /\ revealThrottle' = TRUE
         ELSE UNCHANGED <<classes, revealThrottle>>
    /\ UNCHANGED <<pageVars, revealReady, dataReveal, observed, particleVars, mergedVars>>

\* the setTimeout of ScrollRevealEnhanced.throttle: inThrottle = false
RevealThrottleTimer ==
    /\ revealThrottle
    /\ revealThrottle' = FALSE
    /\ UNCHANGED <<pageVars, scrollY, revealReady, dataReveal, classes, observed,
                   particleVars, mergedVars>>

\* the callback of the revealObserver: the entries are the observed
\* elements that intersect at the current scroll offset
RevealObserverCallback ==
    /\ revealReady
    /\ \E strict \in BOOLEAN :
         LET entries == {el \in observed : isIntersecting(el, scrollY, strict)}
         IN  /\ entries # {}
             /\ classes' = revealEntries(entries, classes)
             /\ observed' = observed \ entries
    /\ UNCHANGED <<pageVars, scrollY, revealReady, dataReveal, revealThrottle,
                   particleVars, mergedVars>>

RevealNext ==
    \/ RevealConstruct
    \/ RevealScroll
    \/ RevealThrottleTimer
    \/ RevealObserverCallback

RevealSpec == RevealInit /\ [][RevealNext]_vars

(***************************************************************************)
(* One ParticlesBackground and one of its particles.                       *)
(***************************************************************************)
\* new ParticlesBackground(): resize, createParticles
ParticleInit ==
    /\ PageInit
    /\ used = {}
    /\ NoReveal
    /\ NoMerged
    /\ canvas \in WindowSizes
    /\ mouse = [x |-> 0, y |-> 0, radius |-> Px(100)]
    /\ \E x \in ParticleXs, y \in ParticleYs, vx \in Velocities, vy \in Velocities :
         particle = [x |-> x, y |-> y, vx |-> vx, vy |-> vy]
    /\ distance = 0 - 1
    /\ frames = 0

\* 'resize' event of the window
WindowResize ==
    /\ \E size \in WindowSizes : size # canvas /\ canvas' = size
    /\ UNCHANGED <<pageVars, scrollY, revealVars, mergedVars, mouse, particle, distance, frames>>

\* 'mousemove' event of the document
MouseMove ==
    /\ \E e \in MousePositions :
         /\ <<e.x, e.y>> # <<mouse.x, mouse.y>>
         /\ mouse' = [mouse EXCEPT !.x = e.x, !.y = e.y]
    /\ UNCHANGED <<pageVars, scrollY, revealVars, mergedVars, canvas, particle, distance, frames>>

\* one animation frame
Animate ==
    /\ frames < MaxFrames
    /\ frames' = frames + 1
    /\ particle' = animate(particle, mouse, canvas)[1]
    /\ distance' = animate(particle, mouse, canvas)[2]
    /\ UNCHANGED <<pageVars, scrollY, revealVars, mergedVars, canvas, mouse>>

ParticleNext ==
    \/ WindowResize
    \/ MouseMove
    \/ Animate

ParticleSpec == ParticleInit /\ [][ParticleNext]_vars

(***************************************************************************)
(* The contact form of a page that runs the whole of src/unnamed/part_000. *)
(* PortfolioAppInit, FieldInput, FieldBlur, NotificationRemove and         *)
(* SuccessHideTimer are the same in both copies of the script and act on   *)
(* the one document; events is the log of the first copy's analytics.      *)
(***************************************************************************)
MergedInit ==
    /\ PageInit
    /\ used = {"contact"}
    /\ NoReveal
    /\ NoParticles
    /\ NoMerged

\* 'submit' event of #contact-form: handleSubmit of the first copy, then
\* handleSubmit of the second, then the analytics listener
MergedSubmit ==
    /\ appReady
    /\ Len(events) < MaxLog
    /\ Len(notifications) + Len(mergedQueue) + Cardinality(Copies) <= MaxMerged
    /\ hideTimers + Len(mergedQueue) + Cardinality(Copies) <= MaxMerged
    /\ LET st0 == [fields |-> fields, submitting |-> mergedSubmitting,
                   disabled |-> submitDisabled, queue |-> mergedQueue,
                   notifications |-> notifications]
           st == mergedHandleSubmit(2, mergedHandleSubmit(1, st0))
       IN  /\ fields' = st.fields
           /\ mergedSubmitting' = st.submitting
           /\ submitDisabled' = st.disabled
           /\ mergedQueue' = st.queue
           /\ notifications' = st.notifications
    /\ events' = logEvent("form_submit:contact-form")
    /\ UNCHANGED <<used, State, appReady, loaded, themeVars, menuVars, scrollVars,
                   filterVars, successDisplay, contactTimers, hideTimers,
                   newsletterVars, revealVars, particleVars>>

\* the oldest pending 1500 ms timer settles its promise; handleSubmit of
\* the copy that started it resumes
MergedTimer ==
    /\ mergedQueue # <<>>
    /\ mergedQueue' = Tail(mergedQueue)
    /\ \E outcome \in ContactSettles :
         IF outcome = "resolved"
           THEN /\ successDisplay' = "flex"
                /\ hideTimers' = hideTimers + 1
                /\ fields' = removeErrors(formReset(fields))
                \* the second copy also calls Utils.showNotification
                /\ notifications' =
                     IF Head(mergedQueue) = 2
                       THEN showNotification("contact-success", "success")
                       ELSE notifications
           ELSE /\ notifications' = showNotification("contact-failure", "error")
                /\ UNCHANGED <<successDisplay, hideTimers, fields>>
    /\ mergedSubmitting' = [mergedSubmitting EXCEPT ![Head(mergedQueue)] = FALSE]
    /\ setSubmittingState(FALSE)
    /\ UNCHANGED <<used, State, appReady, loaded, themeVars, menuVars, scrollVars,
                   events, filterVars, contactTimers, newsletterVars, revealVars,
                   particleVars>>

MergedNext ==
    \/ PortfolioAppInit
    \/ FieldInput
    \/ FieldBlur
    \/ MergedSubmit
    \/ MergedTimer
    \/ SuccessHideTimer
    \/ NotificationRemove

MergedSpec == MergedInit /\ [][MergedNext]_vars

(***************************************************************************)
(* Timers of the page fire: a pending timer callback is eventually run.    *)
(***************************************************************************)
FairSpec ==
    /\ Spec
    /\ WF_vars(NavThrottleTimer)
    /\ WF_vars(NotificationRemove)
    /\ WF_vars(ContactTimer)
    /\ WF_vars(SuccessHideTimer)
    /\ WF_vars(NewsletterTimer)

(***************************************************************************)
(* Properties                                                              *)
(***************************************************************************)
\* C1: once the ThemeManager is constructed, and after every setTheme /
\* toggleTheme call, local-storage key 'theme' holds STATE.theme and the
\* body carries class 'dark-mode' exactly when STATE.theme is 'dark'.
C1_ThemeStored ==
    appReady =>
        /\ "theme" \in DOMAIN storage
        /\ storage["theme"] = State.theme
        /\ darkMode <=> (State.theme = "dark")

\* C1 witness: the theme was toggled to dark against the one found at load
C1_Toggled ==
    /\ appReady
    /\ ~prefersDark
    /\ State.theme = "dark"
    /\ storage["theme"] = "dark"
    /\ darkMode
    /\ themeColor = "#111827"

\* C2: in every reachable state STATE.theme is 'light' or 'dark', whatever
\* local-storage key 'theme' held at load and whatever the system prefers.
C2_ThemeIsLightOrDark == State.theme \in {"light", "dark"}

\* C3: no step writes or removes a local-storage key other than 'theme'.
C3_OnlyThemeKey ==
    [][ /\ DOMAIN storage \subseteq DOMAIN storage'
        /\ DOMAIN storage' \subseteq (DOMAIN storage) \cup {"theme"}
        /\ \A k \in (DOMAIN storage) \ {"theme"} : storage'[k] = storage[k] ]_vars

\* C3 witness: the theme was saved, a newsletter submission is pending and
\* its submit event was logged, and key 'other' still holds its value
C3_OtherKeyKept ==
    /\ appReady
    /\ DOMAIN storage = {"theme", "other"}
    /\ storage["other"] = "x"
    /\ storage["theme"] = "light"
    /\ State.theme = "light"
    /\ prefersDark
    /\ nlTimers > 0
    /\ Len(events) > 1

\* C4: when the 1500 ms timer of a contact submission fires, exactly one of
\* the two outcomes happens (the success message is shown, or the error
\* notification is shown), STATE.formSubmitting is false and the submit
\* button is enabled afterwards; and every pending submission is settled.
C4_ContactSettles ==
    /\ [][ ContactTimer =>
             LET success == /\ successDisplay' = "flex"
                            /\ hideTimers' = hideTimers + 1
                            /\ notifications' = notifications
                 failure == /\ notifications' =
                                 Append(notifications,
                                        Notification("contact-failure", "error"))
                            /\ successDisplay' = successDisplay
                            /\ hideTimers' = hideTimers
             IN  /\ success # failure
                 /\ State'.formSubmitting = FALSE
                 /\ submitDisabled' = FALSE ]_vars
    /\ State.formSubmitting ~> ~State.formSubmitting

\* C4 witness: a submission has succeeded and a later one has failed
C4_BothOutcomes ==
    /\ successDisplay = "flex"
    /\ \E i \in 1..Len(notifications) : notifications[i].text = "contact-failure"
    /\ ~State.formSubmitting
    /\ ~submitDisabled
    /\ contactTimers = 0

\* a 'submit' event of the newsletter form whose email fails validateEmail
InvalidNewsletterSubmit == NewsletterSubmit /\ ~validateEmail(nlEmail)

InViewport(el, y) ==
    /\ getBoundingClientRect(el, y).top <= ViewportHeight
    /\ getBoundingClientRect(el, y).bottom >= 0

\* rect of el intersects the viewport grown by the observer's root margin
WithinRootMargin(el, y) ==
    /\ getBoundingClientRect(el, y).top <= ViewportHeight + RootMargin
    /\ getBoundingClientRect(el, y).bottom >= 0 - RootMargin

\* the step gives el class 'revealed'
GetsRevealed(el) == "revealed" \notin classes[el] /\ "revealed" \in classes'[el]

Distance2(x, y) == (mouse.x - x) * (mouse.x - x) + (mouse.y - y) * (mouse.y - y)

\* C7: in a frame, a particle that after its velocity step is nearer to the
\* recorded mouse position than the mouse radius is displaced away from the
\* mouse (in neither coordinate towards it, so its distance does not
\* decrease), and a particle at the radius or farther is moved only by its
\* velocity.
C7_Repelled ==
    [][ Animate =>
          LET x1 == particle.x + particle.vx
              y1 == particle.y + particle.vy
          IN  IF Distance2(x1, y1) < mouse.radius * mouse.radius
                THEN /\ Distance2(particle'.x, particle'.y) >= Distance2(x1, y1)
                     /\ (particle'.x - x1) * (mouse.x - x1) <= 0
                     /\ (particle'.y - y1) * (mouse.y - y1) <= 0
                     /\ distance' < mouse.radius
                ELSE /\ particle'.x = x1
                     /\ particle'.y = y1
                     /\ distance' >= mouse.radius ]_vars

\* C7 witness: the last frame found the particle 40 px from the mouse and
\* pushed it farther away
C7_PushedAway ==
    /\ frames > 0
    /\ distance > Px(30)
    /\ distance < Px(50)
    /\ Distance2(particle.x, particle.y) > distance * distance + Px(1) * Px(1)

\* the step changes no field of STATE other than f
OnlyField(f) ==
    /\ DOMAIN State' = DOMAIN State
    /\ \A g \in (DOMAIN State) \ {f} : State'[g] = State[g]

\* C8: the theme handlers change only STATE.theme, the menu handlers only
\* STATE.menuOpen, the scroll listener (updateNavbar) only
\* STATE.scrollPosition, and the contact handleSubmit only
\* STATE.formSubmitting.
C8_OwnFieldOnly ==
    /\ [][PortfolioAppInit \/ ThemeSwitcherClick \/ KeyAltT \/ ColorSchemeChange
            => OnlyField("theme")]_vars
    /\ [][MenuToggleClick \/ NavLinkClick \/ KeyEscape => OnlyField("menuOpen")]_vars
    /\ [][WindowScroll => OnlyField("scrollPosition")]_vars
    /\ [][ContactSubmit \/ ContactTimer => OnlyField("formSubmitting")]_vars

\* C8 witness: the menu was opened and a contact submission is pending
C8_TwoFieldsSet ==
    /\ State.menuOpen
    /\ State.formSubmitting
    /\ State.scrollPosition = 0
    /\ navMenuActive
    /\ submitDisabled

\* C9: whenever the progress bar has been updated, its width is a
\* percentage between 0 and 100 and aria-valuenow is an integer between 0
\* and 100, also on a page whose scroll height equals its client height.
C9_ProgressInRange ==
    appReady =>
        /\ progressWidth.kind = "number"
        /\ 0 <= progressWidth.num
        /\ progressWidth.num <= 100 * progressWidth.den
        /\ ariaValueNow.kind = "number"
        /\ ariaValueNow.den = 1
        /\ ariaValueNow.num \in 0..100

\* C10: a 'submit' event of the contact form that arrives while
\* STATE.formSubmitting is true changes neither STATE nor the form, its
\* button, the success message, the notifications or the timers; and at
\* most one simulated submission is pending.
C10_IgnoredWhileSubmitting ==
    /\ [][ContactSubmit /\ State.formSubmitting =>
            UNCHANGED <<State, contactVars, notifications>>]_vars
    /\ [](contactTimers <= 1)
    /\ [](State.formSubmitting <=> contactTimers = 1)

\* C10 witness: two submit events were logged during one pending submission
C10_SecondSubmitIgnored ==
    /\ State.formSubmitting
    /\ contactTimers = 1
    /\ Len(events) = 3
    /\ events[2] = "form_submit:contact-form"
    /\ events[3] = "form_submit:contact-form"
    /\ notifications = <<>>

\* some required field of the contact form is invalid
SomeFieldInvalid ==
    \E i \in 1..Len(RequiredFields) :
        ~validityValid(RequiredFields[i], fields[RequiredFields[i]].value)

\* the values of the fields of the contact form
FieldValuesOf(fs) == [f \in DOMAIN fs |-> fs[f].value]

\* what C11 promises of a submit event with an invalid required field
InvalidSubmitRejected ==
    /\ State'.formSubmitting = FALSE
    /\ submitDisabled' = FALSE
    /\ contactTimers' = contactTimers
    /\ FieldValuesOf(fields') = FieldValuesOf(fields)
    /\ notifications' =
         Append(notifications, Notification("contact-invalid", "error"))

\* C11 as stated: every 'submit' event of the contact form with an invalid
\* required field leaves STATE.formSubmitting false, the button enabled and
\* the field values unchanged, starts no timer and shows exactly one error
\* notification.
C11_InvalidSubmitAlwaysNotified ==
    [][ContactSubmit /\ SomeFieldInvalid => InvalidSubmitRejected]_vars

\* C11: the same for the 'submit' events that arrive while no submission
\* is pending; one that arrives while STATE.formSubmitting is true shows no
\* notification and leaves the flag true and the button disabled.
C11_InvalidSubmitRejected ==
    /\ [][ContactSubmit /\ SomeFieldInvalid /\ ~State.formSubmitting
            => InvalidSubmitRejected]_vars
    /\ [][ContactSubmit /\ SomeFieldInvalid /\ State.formSubmitting
            => /\ notifications' = notifications
               /\ State'.formSubmitting = TRUE
               /\ submitDisabled' = submitDisabled]_vars

\* C11 witness: a form with a name and a malformed email was submitted and
\* rejected
C11_Rejected ==
    /\ fields["name"].value = "Ada"
    /\ fields["email"].value = "ada"
    /\ fields["email"].error
    /\ ~fields["name"].error
    /\ notifications = <<Notification("contact-invalid", "error")>>
    /\ events = <<"page_view", "form_submit:contact-form">>
    /\ ~State.formSubmitting
    /\ ~submitDisabled
    /\ contactTimers = 0

\* C12: in every state the contact submit button is disabled exactly when
\* STATE.formSubmitting is true.
C12_DisabledIffSubmitting == submitDisabled <=> State.formSubmitting

\* C12 witness: a second submission is pending while the success message
\* of the first is still displayed
C12_PendingAfterSuccess ==
    /\ State.formSubmitting
    /\ submitDisabled
    /\ contactTimers = 1
    /\ successDisplay = "flex"
    /\ hideTimers = 1

\* C13: when the timer of a contact submission fires and the submission
\* fails (the error notification is shown), the field values, the field
\* error classes and the success message are left as they were and no hide
\* timer starts; when it succeeds, every field is reset and none carries
\* class 'error'.
C13_OutcomeEffects ==
    [][ ContactTimer =>
          IF notifications' # notifications
            THEN /\ fields' = fields
                 /\ successDisplay' = successDisplay
                 /\ hideTimers' = hideTimers
            ELSE /\ \A f \in DOMAIN fields :
                       fields'[f].value = "" /\ ~fields'[f].error
                 /\ successDisplay' = "flex" ]_vars

\* C13 witness: a submission has failed while the form, edited during the
\* wait, holds a name and a malformed email marked as an error
C13_FailedKeepsForm ==
    /\ notifications = <<Notification("contact-failure", "error")>>
    /\ fields["name"].value = "Ada"
    /\ fields["email"].value = "ada"
    /\ fields["email"].error
    /\ successDisplay = "none"
    /\ hideTimers = 0
    /\ ~State.formSubmitting

\* C14: applied to the form of any state, validateForm returns true exactly
\* when every required field is valid, and leaves class 'error' on exactly
\* the invalid required fields, those after the first invalid one included.
C14_ValidateFormAllFields ==
    LET r == validateForm
    IN  /\ r[1] <=> \A i \in 1..Len(RequiredFields) :
                       validityValid(RequiredFields[i], fields[RequiredFields[i]].value)
        /\ \A i \in 1..Len(RequiredFields) :
             r[2][RequiredFields[i]].error <=>
               ~validityValid(RequiredFields[i], fields[RequiredFields[i]].value)
        /\ FieldValuesOf(r[2]) = FieldValuesOf(fields)

\* C14 witness: the empty form was submitted; both fields, the second as
\* well as the first, are marked and the submission was rejected
C14_BothMarked ==
    /\ fields["name"] = [value |-> "", error |-> TRUE]
    /\ fields["email"] = [value |-> "", error |-> TRUE]
    /\ notifications = <<Notification("contact-invalid", "error")>>
    /\ events = <<"page_view", "form_submit:contact-form">>

\* C15: the success message is displayed for as long as some successful
\* submission is less than 5 seconds old, that is, while the hide timer
\* started by some showSuccess call is still pending.
C15_ShownWhileRecent == hideTimers > 0 => successDisplay = "flex"

\* C16: on the page that runs both copies of the script, a 'submit' event
\* of the contact form starts at most one simulated submission, and after
\* the first submit event the success message and a failure notification
\* are never both shown.
C16_OneSubmissionPerEvent ==
    /\ [][MergedSubmit => Len(mergedQueue') <= Len(mergedQueue) + 1]_vars
    /\ [](events = <<"page_view", "form_submit:contact-form">> =>
            ~(/\ successDisplay = "flex"
              /\ \E i \in 1..Len(notifications) :
                     notifications[i].text = "contact-failure"))

\* C17: the newsletter button is disabled in every state where at least one
\* newsletter submission is pending.
C17_DisabledWhilePending == nlTimers > 0 => nlDisabled

\* the menu flag agrees with the class, the attribute and the body style
MenuConsistent(st, active, aria, overflow) ==
    /\ st.menuOpen <=> active
    /\ st.menuOpen <=> aria = "true"
    /\ st.menuOpen <=> overflow = "hidden"

\* C18: after every call of toggleMenu or closeMenu, STATE.menuOpen is true
\* exactly when the nav menu has the class 'active', aria-expanded is
\* 'true' and the body overflow is 'hidden'.
C18_MenuConsistent ==
    [][MenuToggleClick \/ NavLinkClick \/ KeyEscape =>
         MenuConsistent(State', navMenuActive', ariaExpanded', bodyOverflow')]_vars

\* the menu has been opened by toggleMenu
C18_MenuOpened ==
    /\ State.menuOpen
    /\ MenuConsistent(State, navMenuActive, ariaExpanded, bodyOverflow)

\* the steps that call setActiveNavLink: the constructor of
\* NavigationManager and the scroll listener outside its throttle window
CallsSetActiveNavLink == PortfolioAppInit \/ (WindowScroll /\ ~navThrottle)

\* the sections whose extent [offsetTop, offsetTop + clientHeight) holds pos
SectionsAt(pos) ==
    {i \in 1..Len(Sections) :
        /\ Sections[i].offsetTop <= pos
        /\ pos < Sections[i].offsetTop + Sections[i].clientHeight}

\* C19: after every call of setActiveNavLink, a nav link has 'active' only
\* if its href is '#' + currentSection; currentSection is the id of a
\* section that contains scrollY + 100 whenever there is one, and when
\* there is none currentSection and the active link are unchanged.
C19_ActiveLinkIsCurrent ==
    [][CallsSetActiveNavLink =>
         /\ activeLinks' \subseteq {currentSection'}
         /\ SectionsAt(scrollY' + 100) # {} =>
              \E i \in SectionsAt(scrollY' + 100) : currentSection' = Sections[i].id
         /\ SectionsAt(scrollY' + 100) = {} =>
              /\ currentSection' = currentSection
              /\ activeLinks' = activeLinks]_vars

\* the scroll listener has run at an offset whose reference line lies
\* between two sections, and the section seen before is still current
C19_KeptBetweenSections ==
    /\ SectionsAt(scrollY + 100) = {}
    /\ State.scrollPosition = scrollY
    /\ currentSection # NoSection
    /\ activeLinks = {currentSection}

\* the steps that call updateNavbar: the scroll listener outside its
\* throttle window
CallsUpdateNavbar == WindowScroll /\ ~navThrottle

\* C20: after every call of updateNavbar, the navbar has 'hidden' only if
\* it has 'scrolled'; at an offset of 100 or less it has neither; it has
\* 'hidden' exactly when the offset is above 200 and above the offset the
\* previous call processed; STATE.scrollPosition is the offset processed.
C20_NavbarClasses ==
    [][CallsUpdateNavbar =>
         /\ "hidden" \in navbarClasses' => "scrolled" \in navbarClasses'
         /\ scrollY' <= 100 => navbarClasses' \cap {"scrolled", "hidden"} = {}
         /\ "hidden" \in navbarClasses' <=>
               (scrollY' > 200 /\ scrollY' > State.scrollPosition)
         /\ State'.scrollPosition = scrollY']_vars

\* updateNavbar has processed an offset above 200 that the call before it
\* had processed already: the navbar is shown again
C20_ShownAtSameOffset ==
    /\ scrollY > 200
    /\ State.scrollPosition = scrollY
    /\ navbarClasses = {"scrolled"}

\* C21: after a click on the filter button with data-filter f, activeFilter
\* is f, a filter button has class 'active' and aria-selected 'true'
\* exactly when its data-filter is f, and a project card is displayed
\* exactly when f is 'all' or the card's data-category is f.
C21_FilterApplied ==
    [][\A f \in FilterButtons :
          FilterClickOn(f) =>
            /\ activeFilter' = f
            /\ \A b \in FilterButtons :
                 /\ b \in filterActive' <=> b = f
                 /\ ariaSelected'[b] = "true" <=> b = f
            /\ \A c \in DOMAIN ProjectCards :
                 cardDisplay'[c] = "block" <=> (f = "all" \/ ProjectCards[c] = f)
            /\ \A c \in DOMAIN ProjectCards :
                 cardDisplay'[c] \in {"block", "none"}]_vars

\* a click has selected the category of the second card only
C21_MobileSelected ==
    /\ activeFilter = "mobile"
    /\ filterActive = {"mobile"}
    /\ ariaSelected["mobile"] = "true"
    /\ cardDisplay = [c1 |-> "none", c2 |-> "block", c3 |-> "none"]

====
